---------------------------- MODULE Spec2Model ----------------------------
(***************************************************************************)
(* Model of capstone.py: a Streamlit chat page in front of an Azure OpenAI *)
(* "on your data" (RAG) completion endpoint.                               *)
(*                                                                         *)
(* One process serves several browser sessions.  Every user action makes   *)
(* the framework execute the script top to bottom for that session; the    *)
(* position of a session inside the script is pc[s].  The process-wide     *)
(* state is the environment and the st.cache_resource entry of             *)
(* initialize_azure_client; the per-session state is st.session_state      *)
(* (messages, chat_history) and what the latest run drew on the page.      *)
(*                                                                         *)
(* Framework behaviour the script relies on, modelled as documented:       *)
(*  - st.cache_resource keeps the first return value of the function, None *)
(*    included, for the life of the process, and computes it under a lock; *)
(*  - st.stop() ends the run, st.rerun() starts the script over;           *)
(*  - a widget can fire only if the previous run drew it;                  *)
(*  - a run, once started, executes to its end: a new event of the same    *)
(*    session is taken when the run is over.                               *)
(* "request" in the properties is one chat.completions.create call.        *)
(***************************************************************************)
EXTENDS Integers, Sequences, FiniteSets, TLC

\* ------------------------------------------------------------------ bounds

\* Turns a session may take between two resets of its conversation.
MaxTurns == 2

\* ------------------------------------------------------------- input sets

Sessions == {"s1", "s2"}

\* os.getenv(name): <<>> is None, <<v>> is the string v.
GetenvResults == {<<>>, <<"">>, <<"x">>}

Prompts == {"What projects have you worked on?", "hi"}

\* What the user of session s may type: the second session's user asks only
\* the first question.
PromptsOf(s) ==
    IF s = "s1" THEN Prompts ELSE {"What projects have you worked on?"}

\* What the remote service does with one request: it answers with a text,
\* or the call raises an exception whose str() is the text.
Outcomes ==
    { [kind |-> "ok", text |-> "answer"],
      [kind |-> "raise", text |-> "timeout"] }

NoOutcome == [kind |-> "pending", text |-> ""]

\* ------------------------------------------------------- program constants

EnvVars ==
    { "OPEN_AI_ENDPOINT", "OPEN_AI_KEY", "CHAT_MODEL", "EMBEDDING_MODEL",
      "SEARCH_ENDPOINT", "SEARCH_KEY", "INDEX_NAME" }

\* Every environment: each variable unset, empty or set.
AllEnvironments == [EnvVars -> GetenvResults]

\* The environments of the several-session specification: the two required
\* variables take every value, the other five are set.
Environments ==
    { e \in AllEnvironments :
        \A v \in EnvVars \ {"OPEN_AI_ENDPOINT", "OPEN_AI_KEY"} : e[v] = <<"x">> }

\* Python truthiness of an os.getenv result: None and "" are falsy.
Truthy(value) == value # <<>> /\ value[1] # ""

Msg(role, content) == [role |-> role, content |-> content]

\* st.session_state.messages as first created.
InitialMessages ==
    << Msg("system",
           "you are an expert on my history and the projects i have worked on.") >>

\* st.session_state.messages as the clear button recreates it.
ClearedMessages ==
    << Msg("system",
           "You are a travel assistant that provides information on travel services available from Margie's Travel.") >>

\* The (label, variable) pairs of the configuration status panel.
config_items_copied ==
    << <<"Azure OpenAI Endpoint", "OPEN_AI_ENDPOINT">>,
       <<"Chat Model", "CHAT_MODEL">>,
       <<"Embedding Model", "CHAT_MODEL">>,
       <<"Search Endpoint", "SEARCH_ENDPOINT">>,
       <<"Index Name", "INDEX_NAME">> >>

config_items ==
    << <<"Azure OpenAI Endpoint", "OPEN_AI_ENDPOINT">>,
       <<"Chat Model", "CHAT_MODEL">>,
       <<"Embedding Model", "EMBEDDING_MODEL">>,
       <<"Search Endpoint", "SEARCH_ENDPOINT">>,
       <<"Index Name", "INDEX_NAME">> >>

\* chat_client values.  Unassigned: line 95 has not run yet in this session.
Unassigned == [id |-> -1, azure_endpoint |-> <<>>, api_key |-> <<>>]
None == [id |-> 0, azure_endpoint |-> <<>>, api_key |-> <<>>]

NoTrigger == [kind |-> "none", text |-> ""]
ClearClick == [kind |-> "clear", text |-> ""]
Submit(p) == [kind |-> "prompt", text |-> p]

\* ------------------------------------------------------------------ state

VARIABLES
    env,            \* os.environ after load_dotenv()
    cache,          \* st.cache_resource entry: <<>> (none) or <<value>>
    constructed,    \* number of AzureOpenAI(...) constructions so far
    configReads,    \* number of executions of initialize_azure_client's body
    pc,             \* per session: position of the script run
    trigger,        \* per session: the widget event of the current/last run
    messages,       \* st.session_state.messages
    chat_history,   \* st.session_state.chat_history
    chat_client,    \* value bound by the latest execution of line 95
    response,       \* value bound by line 157 in the current/last run
    display,        \* chat messages drawn by the current/last run
    panel,          \* status lines drawn by the current/last run
    wire,           \* requests sent since the conversation was last (re)seeded
    base,           \* len(messages) when the current/last run began
    requestsThisRun,\* outbound requests issued by the current/last run
    inflight        \* outbound requests issued and not yet returned

vars ==
    << env, cache, constructed, configReads, pc, trigger, messages,
       chat_history, chat_client, response, display, panel, wire, base,
       requestsThisRun, inflight >>

processVars == << env, cache, constructed, configReads >>

Last(seq) == seq[Len(seq)]

\* ------------------------------------------------------------ pure helpers

\* The condition of line 23.
ConfigMissing_both(e) ==
    ~Truthy(e["OPEN_AI_ENDPOINT"]) /\ ~Truthy(e["OPEN_AI_KEY"])

ConfigMissing(e) ==
    ~Truthy(e["OPEN_AI_ENDPOINT"]) \/ ~Truthy(e["OPEN_AI_KEY"])

\* AzureOpenAI(api_version=..., azure_endpoint=..., api_key=...): a new object.
AzureOpenAI(n, e) ==
    [id |-> n,
     azure_endpoint |-> e["OPEN_AI_ENDPOINT"],
     api_key |-> e["OPEN_AI_KEY"]]

\* st.cache_resource: is there an entry for the (argument-less) call?
CacheHit_never(c) == FALSE

CacheHit(c) == c # <<>>

\* The keyword arguments of chat.completions.create.
RagRequest_lastOnly(e, msgs) ==
    [model |-> e["CHAT_MODEL"],
     messages |-> << Last(msgs) >>,
     extra_body |->
        [type |-> "azure_search",
         endpoint |-> e["SEARCH_ENDPOINT"],
         index_name |-> e["INDEX_NAME"],
         authentication |-> [type |-> "api_key", key |-> e["SEARCH_KEY"]],
         query_type |-> "vector",
         embedding_dependency |->
            [type |-> "deployment_name",
             deployment_name |-> e["EMBEDDING_MODEL"]]]]

RagRequest(e, msgs) ==
    [model |-> e["CHAT_MODEL"],
     messages |-> msgs,
     extra_body |->
        [type |-> "azure_search",
         endpoint |-> e["SEARCH_ENDPOINT"],
         index_name |-> e["INDEX_NAME"],
         authentication |-> [type |-> "api_key", key |-> e["SEARCH_KEY"]],
         query_type |-> "vector",
         embedding_dependency |->
            [type |-> "deployment_name",
             deployment_name |-> e["EMBEDDING_MODEL"]]]]

\* The except branch of get_rag_response.
ErrorReply_bare(m) == m

ErrorReply(m) == "Error: " \o m

\* The value get_rag_response returns for an outcome of the remote call.
RagResponse(o) == IF o.kind = "ok" THEN o.text ELSE ErrorReply(o.text)

\* The status lines of lines 126-130, one per entry of the list given.
StatusLines(items, e) ==
    [ i \in 1..Len(items) |->
        [label |-> items[i][1],
         var |-> items[i][2],
         present |-> Truthy(e[items[i][2]])] ]

\* ------------------------------------------------------------------- Init

InitFrom(environments) ==
    /\ env \in environments
    /\ cache = <<>>
    /\ constructed = 0
    /\ configReads = 0
    /\ pc = [s \in Sessions |-> "new"]
    /\ trigger = [s \in Sessions |-> NoTrigger]
    /\ messages = [s \in Sessions |-> <<>>]
    /\ chat_history = [s \in Sessions |-> <<>>]
    /\ chat_client = [s \in Sessions |-> Unassigned]
    /\ response = [s \in Sessions |-> ""]
    /\ display = [s \in Sessions |-> <<>>]
    /\ panel = [s \in Sessions |-> <<>>]
    /\ wire = [s \in Sessions |-> <<>>]
    /\ base = [s \in Sessions |-> 0]
    /\ requestsThisRun = [s \in Sessions |-> 0]
    /\ inflight = [s \in Sessions |-> 0]

Init == InitFrom(Environments)

\* ---------------------------------------------------------------- actions

\* Lines 81-88: create the session-state keys that do not exist yet.
SessionStateInit(s) ==
    /\ messages' =
         [messages EXCEPT ![s] = IF pc[s] = "new" THEN InitialMessages ELSE @]
    /\ chat_history' =
         [chat_history EXCEPT ![s] = IF pc[s] = "new" THEN <<>> ELSE @]

\* The framework starts a script run for session s: the first page load, or
\* a widget event of the page the previous run drew.  A run that halted at
\* st.stop() drew neither the clear button nor the chat input.
Events(s) ==
    IF pc[s] = "idle"
    THEN {NoTrigger, ClearClick}
            \cup { Submit(p) : p \in
                     IF Len(messages[s]) < 1 + 2 * MaxTurns
                     THEN PromptsOf(s) ELSE {} }
    ELSE {NoTrigger}

BeginRun(s, ev) ==
    /\ SessionStateInit(s)
    /\ trigger' = [trigger EXCEPT ![s] = ev]
    /\ display' = [display EXCEPT ![s] = <<>>]
    /\ panel' = [panel EXCEPT ![s] = <<>>]
    /\ requestsThisRun' = [requestsThisRun EXCEPT ![s] = 0]
    /\ base' = [base EXCEPT ![s] = Len(messages'[s])]
    /\ pc' = [pc EXCEPT ![s] = "init_client"]
    /\ response' = [response EXCEPT ![s] = ""]
    /\ UNCHANGED << processVars, chat_client, wire, inflight >>

StartRun(s) ==
    /\ pc[s] \in {"new", "idle", "stopped"}
    /\ \E ev \in Events(s) : BeginRun(s, ev)

\* Line 109, st.rerun(): the script starts over with no widget event.
Rerun(s) ==
    /\ pc[s] = "rerun"
    /\ BeginRun(s, NoTrigger)

\* Lines 16-35 and 94-98: the memoized initialize_azure_client, then st.stop()
\* when it gave None.
InitializeClient(s) ==
    /\ pc[s] = "init_client"
    /\ \E value \in
            IF CacheHit(cache) THEN {cache[1]}
            ELSE IF ConfigMissing(env) THEN {None}
            \* the constructor returns the client, or raises (None)
            ELSE {AzureOpenAI(constructed + 1, env), None} :
         /\ IF CacheHit(cache)
            THEN UNCHANGED << cache, constructed, configReads >>
            ELSE /\ configReads' = configReads + 1
                 /\ constructed' = IF value = None THEN constructed
                                                   ELSE constructed + 1
                 /\ cache' = << value >>
         /\ chat_client' = [chat_client EXCEPT ![s] = value]
         /\ pc' = [pc EXCEPT ![s] = IF value = None THEN "stopped" ELSE "sidebar"]
    /\ UNCHANGED << env, trigger, messages, chat_history, response, display,
                    panel, wire, base, requestsThisRun, inflight >>

\* Lines 104-109: the clear button was clicked.
ClearChat_historyOnly(s) ==
    /\ pc[s] = "sidebar"
    /\ trigger[s].kind = "clear"
    /\ chat_history' = [chat_history EXCEPT ![s] = <<>>]
    /\ wire' = [wire EXCEPT ![s] = <<>>]
    /\ pc' = [pc EXCEPT ![s] = "rerun"]
    /\ UNCHANGED << processVars, trigger, messages, chat_client, response,
                    display, panel, base, requestsThisRun, inflight >>

ClearChat(s) ==
    /\ pc[s] = "sidebar"
    /\ trigger[s].kind = "clear"
    /\ chat_history' = [chat_history EXCEPT ![s] = <<>>]
    /\ messages' = [messages EXCEPT ![s] = ClearedMessages]
    /\ wire' = [wire EXCEPT ![s] = <<>>]
    /\ pc' = [pc EXCEPT ![s] = "rerun"]
    /\ UNCHANGED << processVars, trigger, chat_client, response, display,
                    panel, base, requestsThisRun, inflight >>

\* Lines 111-140: the rest of the sidebar (status panel) and the history.
RenderPage(s) ==
    /\ pc[s] = "sidebar"
    /\ trigger[s].kind # "clear"
    /\ panel' = [panel EXCEPT ![s] = StatusLines(config_items, env)]
    /\ display' = [display EXCEPT ![s] = chat_history[s]]
    /\ pc' = [pc EXCEPT ![s] = "chat_input"]
    /\ UNCHANGED << processVars, trigger, messages, chat_history, chat_client,
                    response, wire, base, requestsThisRun, inflight >>

\* Lines 143-152: st.chat_input returned the submitted text.
SubmitPrompt(s) ==
    /\ pc[s] = "chat_input"
    /\ trigger[s].kind = "prompt"
    /\ chat_history' =
         [chat_history EXCEPT ![s] = Append(@, Msg("user", trigger[s].text))]
    /\ messages' =
         [messages EXCEPT ![s] = Append(@, Msg("user", trigger[s].text))]
    /\ display' = [display EXCEPT ![s] = Append(@, Msg("user", trigger[s].text))]
    /\ pc' = [pc EXCEPT ![s] = "request"]
    /\ UNCHANGED << processVars, trigger, chat_client, response, panel, wire,
                    base, requestsThisRun, inflight >>

\* Line 143 with nothing submitted, then lines 165-181: the run ends.
NoPrompt(s) ==
    /\ pc[s] = "chat_input"
    /\ trigger[s].kind # "prompt"
    /\ pc' = [pc EXCEPT ![s] = "idle"]
    /\ UNCHANGED << processVars, trigger, messages, chat_history, chat_client,
                    response, display, panel, wire, base, requestsThisRun,
                    inflight >>

\* Lines 157 and 39-74: get_rag_response builds the request and sends it.
IssueRequest(s) ==
    /\ pc[s] = "request"
    /\ wire' =
         [wire EXCEPT ![s] =
            Append(@, [prompt |-> trigger[s].text,
                       request |-> RagRequest(env, messages[s]),
                       outcome |-> NoOutcome])]
    /\ requestsThisRun' = [requestsThisRun EXCEPT ![s] = @ + 1]
    /\ inflight' = [inflight EXCEPT ![s] = @ + 1]
    /\ pc' = [pc EXCEPT ![s] = "awaiting"]
    /\ UNCHANGED << processVars, trigger, messages, chat_history, chat_client,
                    response, display, panel, base >>

\* The blocking call ends; the outcome becomes the wire entry's outcome.
CallEnds(s, o) ==
    /\ wire' = [wire EXCEPT ![s][Len(wire[s])].outcome = o]
    /\ inflight' = [inflight EXCEPT ![s] = @ - 1]

\* Lines 70-79 and 157: the call returns or raises; response is bound.
Respond_retry(s) ==
    /\ pc[s] = "awaiting"
    /\ \E o \in Outcomes :
         /\ CallEnds(s, o)
         /\ response' = [response EXCEPT ![s] = RagResponse(o)]
         /\ pc' = [pc EXCEPT ![s] = IF o.kind = "raise" /\ requestsThisRun[s] < 2
                                    THEN "request" ELSE "reply"]
    /\ UNCHANGED << processVars, trigger, messages, chat_history, chat_client,
                    display, panel, base, requestsThisRun >>

Respond_fatal(s) ==
    /\ pc[s] = "awaiting"
    /\ \E o \in Outcomes :
         /\ CallEnds(s, o)
         /\ response' = [response EXCEPT ![s] = RagResponse(o)]
         /\ pc' = [pc EXCEPT ![s] = IF o.kind = "raise" THEN "stopped" ELSE "reply"]
    /\ UNCHANGED << processVars, trigger, messages, chat_history, chat_client,
                    display, panel, base, requestsThisRun >>

Respond(s) ==
    /\ pc[s] = "awaiting"
    /\ \E o \in Outcomes :
         /\ CallEnds(s, o)
         /\ response' = [response EXCEPT ![s] = RagResponse(o)]
         /\ pc' = [pc EXCEPT ![s] = "reply"]
    /\ UNCHANGED << processVars, trigger, messages, chat_history, chat_client,
                    display, panel, base, requestsThisRun >>

\* Lines 159-163, then 165-181: show the reply, record it, the run ends.
AppendReply_dropErrors(s) ==
    /\ pc[s] = "reply"
    /\ display' = [display EXCEPT ![s] = Append(@, Msg("assistant", response[s]))]
    /\ IF Last(wire[s]).outcome.kind = "raise"
       THEN UNCHANGED << chat_history, messages >>
       ELSE /\ chat_history' =
                 [chat_history EXCEPT ![s] = Append(@, Msg("assistant", response[s]))]
            /\ messages' =
                 [messages EXCEPT ![s] = Append(@, Msg("assistant", response[s]))]
    /\ pc' = [pc EXCEPT ![s] = "idle"]
    /\ UNCHANGED << processVars, trigger, chat_client, response, panel, wire,
                    base, requestsThisRun, inflight >>

AppendReply(s) ==
    /\ pc[s] = "reply"
    /\ display' = [display EXCEPT ![s] = Append(@, Msg("assistant", response[s]))]
    /\ chat_history' =
         [chat_history EXCEPT ![s] = Append(@, Msg("assistant", response[s]))]
    /\ messages' =
         [messages EXCEPT ![s] = Append(@, Msg("assistant", response[s]))]
    /\ pc' = [pc EXCEPT ![s] = "idle"]
    /\ UNCHANGED << processVars, trigger, chat_client, response, panel, wire,
                    base, requestsThisRun, inflight >>

Step(s) ==
    \/ StartRun(s)
    \/ Rerun(s)
    \/ InitializeClient(s)
    \/ ClearChat(s)
    \/ RenderPage(s)
    \/ SubmitPrompt(s)
    \/ NoPrompt(s)
    \/ IssueRequest(s)
    \/ Respond(s)
    \/ AppendReply(s)

Next == \E s \in Sessions : Step(s)

\* Several sessions of one process, over the environments of Environments.
Spec == Init /\ [][Next]_vars

\* One session of the process, over every environment.
InitAllEnv == InitFrom(AllEnvironments)

NextOneSession == Step("s1")

SpecAllEnv == InitAllEnv /\ [][NextOneSession]_vars

\* ------------------------------------------------------------- properties

Required == {"OPEN_AI_ENDPOINT", "OPEN_AI_KEY"}

\* A required variable is unset or empty.
RequiredAbsent == \E v \in Required : env[v] \in {<<>>, <<"">>}

TurnInProgress(s) == pc[s] \in {"request", "awaiting", "reply"}

\* C1: when the endpoint URL or the API key is absent, initialization gives
\* None to every session and every run of every session halts at st.stop():
\* no user message is ever appended and no request is ever issued.
C1_MissingConfigHalts ==
    RequiredAbsent =>
        /\ cache \in {<<>>, << None >>}
        /\ constructed = 0
        /\ \A s \in Sessions :
             /\ pc[s] \in {"new", "init_client", "stopped"}
             /\ chat_client[s] \in {Unassigned, None}
             /\ messages[s] \in {<<>>, InitialMessages}
             /\ chat_history[s] = <<>>
             /\ wire[s] = <<>>
             /\ requestsThisRun[s] = 0
             /\ inflight[s] = 0

\* Only the key is absent; every session has run, halted, and run again
\* (the second session's first run found None in the cache).
C1_Witness ==
    /\ Truthy(env["OPEN_AI_ENDPOINT"])
    /\ env["OPEN_AI_KEY"] = <<>>
    /\ cache = << None >>
    /\ \A s \in Sessions : pc[s] = "stopped" /\ chat_client[s] = None

\* C2: in a run that handles a submitted text, messages holds one more entry
\* (the user message) from the append until the reply is recorded, the request
\* is issued only after that append, and the finished run has added exactly
\* two: the user message and an assistant message, whatever the call did.
C2_TurnAddsTwo ==
    \A s \in Sessions :
        (trigger[s].kind = "prompt" /\ pc[s] # "stopped") =>
            LET user == Msg("user", trigger[s].text)
                n == Len(messages[s])
            IN  /\ pc[s] \in {"init_client", "sidebar", "chat_input"} =>
                     n = base[s] /\ requestsThisRun[s] = 0
                /\ TurnInProgress(s) =>
                     n = base[s] + 1 /\ messages[s][n] = user
                /\ pc[s] = "request" => requestsThisRun[s] = 0
                /\ pc[s] = "idle" =>
                     /\ n = base[s] + 2
                     /\ messages[s][n - 1] = user
                     /\ messages[s][n].role = "assistant"

\* A session finished two turns, the first answered and the second failed.
C2_Witness ==
    \E s \in Sessions :
        /\ pc[s] = "idle"
        /\ trigger[s].kind = "prompt"
        /\ Len(messages[s]) = 5
        /\ base[s] = 3
        /\ wire[s][1].outcome.kind = "ok"
        /\ wire[s][2].outcome.kind = "raise"

\* C3: when the call raised with message m, the reply is "Error: " followed
\* by m; that string is what the run displays as the assistant message and
\* what it appends to messages and to chat_history, and the run goes on to
\* its normal end.
C3_ErrorFolded ==
    \A s \in Sessions :
        \A i \in 1..Len(wire[s]) :
            wire[s][i].outcome.kind = "raise" =>
                LET reply == Msg("assistant", "Error: " \o wire[s][i].outcome.text)
                    latest == i = Len(wire[s])
                IN  /\ latest => pc[s] # "stopped"
                    /\ (latest /\ pc[s] = "reply") => response[s] = reply.content
                    /\ ~(latest /\ pc[s] = "reply") =>
                         /\ messages[s][2 * i + 1] = reply
                         /\ chat_history[s][2 * i] = reply
                    /\ (latest /\ pc[s] = "idle" /\ trigger[s].kind = "prompt") =>
                         Last(display[s]) = reply

\* A turn whose call raised "timeout" has ended.
C3_Witness ==
    \E s \in Sessions :
        /\ pc[s] = "idle"
        /\ trigger[s].kind = "prompt"
        /\ Last(wire[s]).outcome = [kind |-> "raise", text |-> "timeout"]
        /\ Last(display[s]).content = "Error: timeout"
        /\ Last(messages[s]).content = "Error: timeout"

\* C4: right after the clear action, messages is exactly the one seed message
\* the session started with, and the history and the display are empty.
C4_ClearRestoresSeed ==
    \A s \in Sessions :
        pc[s] = "rerun" =>
            /\ messages[s] = InitialMessages
            /\ chat_history[s] = <<>>
            /\ display[s] = <<>>

\* The reply get_rag_response gives for an outcome, as the claims state it.
ReplyText(o) == IF o.kind = "ok" THEN o.text ELSE "Error: " \o o.text

\* The history after n requests of log w, up to the n-th user message.
RECURSIVE HistoryBefore(_, _, _)
HistoryBefore(seed, w, n) ==
    IF n = 0 THEN << seed >>
    ELSE HistoryBefore(seed, w, n - 1)
            \o (IF n = 1 THEN <<>>
                ELSE << Msg("assistant", ReplyText(w[n - 1].outcome)) >>)
            \o << Msg("user", w[n].prompt) >>

\* C5: every request carries the whole conversation since it was (re)seeded:
\* the system message, then each earlier turn's user text and reply (error
\* replies too) in order, then the new user text; from one request to the
\* next, with no clear between, the payload never gets shorter.
C5_PayloadIsFullHistory ==
    \A s \in Sessions :
        \A i \in 1..Len(wire[s]) :
            /\ messages[s][1].role = "system"
            /\ wire[s][i].request.messages =
                 HistoryBefore(messages[s][1], wire[s], i)
            /\ i > 1 => Len(wire[s][i].request.messages)
                          >= Len(wire[s][i - 1].request.messages)

\* A second request went out after a failed first turn, with another text.
C5_Witness ==
    \E s \in Sessions :
        /\ Len(wire[s]) = 2
        /\ wire[s][1].outcome.kind = "raise"
        /\ wire[s][1].prompt # wire[s][2].prompt
        /\ Len(wire[s][2].request.messages) = 4

PageDrawn(s) == pc[s] \in {"chat_input", "request", "awaiting", "reply", "idle"}

LinesFor(s, v) == { i \in 1..Len(panel[s]) : panel[s][i].var = v }

\* C6 as stated: the panel has one line for each of the seven variables, and a
\* line says present exactly when its own variable is set and non-empty.
C6_SevenStatusLines ==
    \A s \in Sessions :
        PageDrawn(s) =>
            /\ Len(panel[s]) = 7
            /\ \A v \in EnvVars : Cardinality(LinesFor(s, v)) = 1
            /\ \A i \in 1..Len(panel[s]) :
                 panel[s][i].present <=> env[panel[s][i].var] \notin {<<>>, <<"">>}

PanelVars ==
    { "OPEN_AI_ENDPOINT", "CHAT_MODEL", "EMBEDDING_MODEL", "SEARCH_ENDPOINT",
      "INDEX_NAME" }

\* C6 as amended: the panel has one line for each of five variables (endpoint
\* URL, chat model, embedding model, search endpoint, index name) and none for
\* the two keys; a line says present exactly when its own variable is set and
\* non-empty.
C6_FiveStatusLines ==
    \A s \in Sessions :
        PageDrawn(s) =>
            /\ Len(panel[s]) = 5
            /\ \A v \in PanelVars : Cardinality(LinesFor(s, v)) = 1
            /\ \A v \in EnvVars \ PanelVars : LinesFor(s, v) = {}
            /\ \A i \in 1..Len(panel[s]) :
                 panel[s][i].present <=> env[panel[s][i].var] \notin {<<>>, <<"">>}

\* The panel is drawn with the chat model empty, the index name unset, the
\* embedding model set and the search key unset.
C6_Witness ==
    \E s \in Sessions :
        /\ pc[s] = "idle"
        /\ env["CHAT_MODEL"] = <<"">>
        /\ env["INDEX_NAME"] = <<>>
        /\ env["EMBEDDING_MODEL"] = <<"x">>
        /\ env["SEARCH_KEY"] = <<>>
        /\ panel[s][2].present = FALSE
        /\ panel[s][3].present = TRUE
        /\ panel[s][5].present = FALSE

IsClient(c) == c.id >= 1

\* C7: over all runs of all sessions the client is constructed at most once
\* and the configuration is read at most once; every run that has a client has
\* the one that was constructed first.
C7_ClientConstructedOnce ==
    /\ constructed <= 1
    /\ configReads <= 1
    /\ \A s \in Sessions :
         chat_client[s] # Unassigned =>
             /\ cache = << chat_client[s] >>
             /\ IsClient(chat_client[s]) => chat_client[s].id = 1
    /\ \A s, u \in Sessions :
         (IsClient(chat_client[s]) /\ IsClient(chat_client[u])) =>
             chat_client[s] = chat_client[u]

\* Both sessions hold the client, each after a turn and one after a clear.
C7_Witness ==
    /\ constructed = 1
    /\ \A s \in Sessions :
         /\ IsClient(chat_client[s])
         /\ pc[s] = "idle"
         /\ Len(messages[s]) >= 3
    /\ \E s \in Sessions : messages[s][1] = ClearedMessages[1]

\* C8: a run issues a request only when it handles a submitted text, and then
\* exactly one, also when the call fails; a run that initializes, clears or
\* has no input issues none; a session has at most one request in flight, and
\* only while its run waits for the call.
C8_OneRequestPerTurn ==
    \A s \in Sessions :
        /\ inflight[s] \in {0, 1}
        /\ inflight[s] = 1 <=> pc[s] = "awaiting"
        /\ requestsThisRun[s] =
             IF trigger[s].kind = "prompt" /\ pc[s] \in {"awaiting", "reply", "idle"}
             THEN 1 ELSE 0
        /\ pc[s] = "idle" => 2 * Len(wire[s]) = Len(messages[s]) - 1

\* A turn whose call failed has ended with one request issued, while the
\* other session waits for its own call.
C8_Witness ==
    \E s, u \in Sessions :
        /\ s # u
        /\ pc[s] = "idle"
        /\ trigger[s].kind = "prompt"
        /\ Last(wire[s]).outcome.kind = "raise"
        /\ requestsThisRun[s] = 1
        /\ pc[u] = "awaiting"

\* The state of the session in the stated state machine.
State(s) ==
    IF pc[s] = "new" \/ chat_client[s] = Unassigned THEN "Uninitialized"
    ELSE IF pc[s] = "stopped" \/ chat_client[s] = None THEN "Halted"
    ELSE IF TurnInProgress(s) THEN "Awaiting"
    ELSE "Ready"

Transitions ==
    { <<"Uninitialized", "Ready">>, <<"Uninitialized", "Halted">>,
      <<"Ready", "Awaiting">>, <<"Awaiting", "Ready">> }

\* C9: a session changes state only along Uninitialized -> Ready or Halted,
\* Ready -> Awaiting and Awaiting -> Ready; it is Ready only with a valid
\* configuration; and a turn in progress ends in Ready with the page drawn
\* (clear button and chat input), whether the call returned or raised.
C9_StateMachine ==
    /\ [](\A s \in Sessions : State(s) = "Ready" => ~RequiredAbsent)
    /\ [][\A s \in Sessions :
            /\ State(s)' # State(s) => << State(s), State(s)' >> \in Transitions
            /\ (pc[s] = "reply" /\ pc'[s] # "reply") =>
                  /\ pc'[s] = "idle"
                  /\ ClearClick \in Events(s)'
                  /\ panel'[s] # <<>>]_vars

\* After a failed turn the session took another turn, which was answered.
C9_Witness ==
    \E s \in Sessions :
        /\ State(s) = "Ready"
        /\ pc[s] = "idle"
        /\ Len(wire[s]) = 2
        /\ wire[s][1].outcome.kind = "raise"
        /\ wire[s][2].outcome.kind = "ok"
        /\ Len(messages[s]) = 5

\* C10: while no turn is in progress, messages is one system message followed
\* by chat_history, entry for entry; chat_history holds no system message and
\* alternates user, assistant; the finished run has displayed chat_history.
C10_MessagesMirrorHistory ==
    \A s \in Sessions :
        (pc[s] # "new" /\ ~TurnInProgress(s)) =>
            /\ messages[s] = << messages[s][1] >> \o chat_history[s]
            /\ messages[s][1].role = "system"
            /\ Len(chat_history[s]) % 2 = 0
            /\ \A i \in 1..Len(chat_history[s]) :
                 chat_history[s][i].role =
                     IF i % 2 = 1 THEN "user" ELSE "assistant"
            /\ pc[s] = "idle" => display[s] = chat_history[s]

\* A session at rest after a clear and then two turns.
C10_Witness ==
    \E s \in Sessions :
        /\ pc[s] = "idle"
        /\ messages[s][1] = ClearedMessages[1]
        /\ Len(chat_history[s]) = 4

=============================================================================
